---- MODULE Spec2Model ----
(***************************************************************************)
(* Trip lifecycle, vehicle locking and billing of the logistics backend.   *)
(*                                                                         *)
(* The committed database is the state; every HTTP handler runs in its own *)
(* SQLAlchemy session (db/session.py get_db: no commit of its own, close   *)
(* rolls back what the handler did not commit).  A handler is modelled as  *)
(* the sequence of its database round trips: its SELECTs read the          *)
(* committed rows (PostgreSQL READ COMMITTED, the engine's default), its   *)
(* writes reach the committed rows at db.commit(), and between two round   *)
(* trips (an await) the handler of another request may run.                *)
(***************************************************************************)
EXTENDS Integers, FiniteSets, Sequences, TLC

\* ---------------------------------------------------------------- bounds
StopsPerTrip == 2

\* ------------------------------------------------------------ the universe
Trips    == {1, 2}
Slots    == {"a", "b"}
Vehicles == {"v1"}
NoVehicle == "none"
Drivers  == {"d1", "d2"}
NoDriver == "none"
FleetOwners == {"f1"}
HubOwner == "h1"
Seqs == 1..StopsPerTrip

\* models/trip_enums.py
PLANNED     == "PLANNED"
PENDING     == "PENDING"
IN_PROGRESS == "IN_PROGRESS"
COMPLETED   == "COMPLETED"
CANCELLED   == "CANCELLED"
TripStatus  == {PLANNED, PENDING, IN_PROGRESS, COMPLETED, CANCELLED}

STOP_PENDING   == "STOP_PENDING"
STOP_COMPLETED == "STOP_COMPLETED"
STOP_SKIPPED   == "STOP_SKIPPED"
TripStopStatus == {STOP_PENDING, STOP_COMPLETED, STOP_SKIPPED}

VARIABLES
    trips,        \* trips table: trip id -> row
    stops,        \* trip_stops table: trip id -> sequence_number -> status
    locks,        \* vehicle_locks table: set of rows
    charges,      \* trip_charges table: set of rows
    settlements,  \* settlements table: set of rows
    ledger,       \* ledger_entries table: set of rows
    pricing_rules,\* pricing_rules table: set of rows
    audit_store,  \* audit_logs table: "up" when an INSERT into it commits,
                  \* "down" when it raises
    breaker,      \* a CircuitBreaker object: failures, last_failure_time, state
    clock,        \* time.time(), in seconds
    route_requests, \* hub_route_requests table: request id -> row
    trip_map,     \* route_request_trip_map table: set of rows
    user_active,  \* users.is_active of one user who is not an admin
    user_revoked, \* Redis: the key "user:tokens:<id>:revoked" of that user exists
    req           \* the request each worker slot is serving, or last served

\* the state the trip handlers neither read nor write
others == <<breaker, clock, route_requests, trip_map, user_active, user_revoked>>

vars == <<trips, stops, locks, charges, settlements, ledger, pricing_rules,
          audit_store, others, req>>
billing == <<charges, settlements, ledger>>
db == <<trips, stops, locks, charges, settlements, ledger, pricing_rules,
        audit_store, others>>

\* ------------------------------------------------------------ static rows
\* users table (models/user.py): is_active and fleet_owner_id of a driver
DriverActive(d) == d \in Drivers
DriverFleet(d) == "f1"

\* fleet_routes table: great-circle distance (km) from the destination of
\* route r1 to the origin of route r2 (r1 = r2: the length of the route), as
\* haversine_distance returns it for their coordinates
haversine_distance(r1, r2) ==
    IF r1 = r2 THEN 120
    ELSE IF r1 < r2 THEN (IF r2 - r1 = 1 THEN 80 ELSE 50)
    ELSE (IF r1 - r2 = 1 THEN 51 ELSE 30)

\* trips.created_at, in hours since an epoch (set once by the server default)
created_at(t) == trips[t].created_at

\* parcels.weight_kg of the parcel of the trip's stops
parcel_weight_kg(t) == t + 1

\* ------------------------------------------------------------- the request
NoReq == [op |-> "none", pc |-> "done", trip |-> 0, arg |-> "none", seq |-> 0,
          code |-> 0, reason |-> "none", value |-> {}, pre |-> FALSE]

\* What a handler's guards answer: Pass, or the HTTPException they raise (its
\* status, the reason of its detail and the numbers the detail reports).
Pass == [code |-> 0, reason |-> "pass", value |-> {}]
Reject(code, reason, value) == [code |-> code, reason |-> reason, value |-> value]

Active(r) == req[r].pc # "done"

\* A new request is served by the first free slot.
Free(r) == ~Active(r) /\ (r = "b" => Active("a"))

\* A request arrives at slot r.  What a slot last answered is kept while the
\* requests it overlapped with are being served and forgotten at the next
\* arrival: two answers that are both on record belong to requests that
\* overlapped in time.
Arrive(r, rec) ==
    [s \in Slots |-> IF s = r THEN rec ELSE IF Active(s) THEN req[s] ELSE NoReq]

\* The handler of slot r returns.
Respond(r, code, reason, value) ==
    [req EXCEPT ![r].pc = "done", ![r].arg = "none", ![r].code = code,
                ![r].reason = reason, ![r].value = value]

Goto(r, pc) == [req EXCEPT ![r].pc = pc]

\* log_event: db.add(audit_log); db.commit().  TRUE when it returns, FALSE
\* when the write raises.
log_event == audit_store = "up"

\* The end of a handler that has committed: log_event(...), then the
\* response; an exception of log_event leaves the handler and is answered 500.
Audited(r) ==
    IF log_event THEN Respond(r, 200, "ok", {})
    ELSE Respond(r, 500, "audit_failed", {})

Overlapped(r, s) == r # s /\ req[r].op # "none" /\ req[s].op # "none"

\* ------------------------------------------------------------ vehicle locks
LiveLocks(v) == {l \in locks : l.vehicle_id = v /\ ~l.released}

\* variant: an INSERT that does not wait for another transaction's
\* uncommitted row (the check done by a SELECT before the INSERT)
PendingInsertUnseen(s) == {}

\* an INSERT of a live lock that slot s has flushed and not yet committed
PendingInsert(s) ==
    IF req[s].op = "start_trip" /\ req[s].pc = "commit"
       /\ trips[req[s].trip].vehicle_id # NoVehicle
    THEN {trips[req[s].trip].vehicle_id} ELSE {}

\* variant: the index declared without unique=True
ix_vehicle_locks_active_not_unique(v) == TRUE

\* ix_vehicle_locks_active: unique on vehicle_id where released_at is null
ix_vehicle_locks_active(v) == LiveLocks(v) = {}

\* variant: the row built with released_at=datetime.utcnow()
create_vehicle_lock_released(v, t, d) ==
    [id |-> Cardinality(locks) + 1, vehicle_id |-> v, trip_id |-> t,
     locked_by_driver_id |-> d, released |-> TRUE]

\* create_vehicle_lock: the row db.add() + db.flush() sends
create_vehicle_lock(v, t, d) ==
    [id |-> Cardinality(locks) + 1, vehicle_id |-> v, trip_id |-> t,
     locked_by_driver_id |-> d, released |-> FALSE]

\* variant: the select without its trip_id condition
release_vehicle_lock_any_trip(v, t) ==
    LET mine == {l \in locks : l.vehicle_id = v /\ ~l.released}
    IN  [found |-> mine # {},
         rows  |-> (locks \ mine) \cup {[l EXCEPT !.released = TRUE] : l \in mine}]

\* release_vehicle_lock: the rows after the release, and what it returns
release_vehicle_lock(v, t) ==
    LET mine == {l \in locks : l.vehicle_id = v /\ l.trip_id = t /\ ~l.released}
    IN  [found |-> mine # {},
         rows  |-> (locks \ mine) \cup {[l EXCEPT !.released = TRUE] : l \in mine}]

count_driver_in_progress_trips(d) ==
    Cardinality({t \in Trips : trips[t].driver_id = d /\ trips[t].status = IN_PROGRESS})

\* -------------------------------------------------------- route connectivity
CONNECTIVITY_DISTANCE_THRESHOLD_KM == 50
CONNECTIVITY_DATE_THRESHOLD_DAYS == 2

Abs(x) == IF x < 0 THEN -x ELSE x

\* timedelta.days of a difference given in hours (floor, as Python normalises)
TimedeltaDays(hours) == hours \div 24

validate_route_connectivity(existing, new) ==
    \/ trips[existing].route_id = trips[new].route_id
    \/ /\ haversine_distance(trips[existing].route_id, trips[new].route_id)
             <= CONNECTIVITY_DISTANCE_THRESHOLD_KM
       /\ Abs(TimedeltaDays(created_at(new) - created_at(existing)))
             <= CONNECTIVITY_DATE_THRESHOLD_DAYS

\* can_assign_driver_to_trip: the trips it vetoes with (empty: admitted)
HeldTrips(d) ==
    {t \in DOMAIN trips : trips[t].driver_id = d /\ trips[t].status = PLANNED}

can_assign_driver_to_trip(d, new) ==
    {t \in HeldTrips(d) : ~validate_route_connectivity(t, new)}

\* ------------------------------------------------------ driver assignment
\* assign_driver_to_trip up to the connectivity check: its reads and guards
assign_driver_guard(t, f, d) ==
    IF trips[t].fleet_owner_id # f THEN Reject(403, "not_your_trip", {})
    ELSE IF trips[t].status # PLANNED THEN Reject(400, "not_planned", {})
    ELSE IF ~DriverActive(d) THEN Reject(400, "driver_inactive", {})
    ELSE IF DriverFleet(d) # f THEN Reject(403, "driver_not_in_fleet", {})
    ELSE IF can_assign_driver_to_trip(d, t) # {}
         THEN Reject(400, "not_connected", can_assign_driver_to_trip(d, t))
    ELSE Pass

\* A request whose guards raise leaves no trace in the database: only the
\* requests that pass them are followed further.
assign_driver_read(r, t, f, d) ==
    /\ Free(r)
    /\ assign_driver_guard(t, f, d) = Pass
    /\ req' = Arrive(r, [NoReq EXCEPT !.op = "assign_driver", !.trip = t,
                                      !.arg = d, !.pc = "commit"])
    /\ UNCHANGED db

\* trip.driver_id = ...; trip.status = PENDING; db.commit()
assign_driver_commit(r) ==
    /\ req[r].op = "assign_driver" /\ req[r].pc = "commit"
    /\ trips' = [trips EXCEPT ![req[r].trip].driver_id = req[r].arg,
                              ![req[r].trip].status = PENDING]
    /\ req' = Audited(r)
    /\ UNCHANGED <<stops, locks, billing, pricing_rules, audit_store, others>>

\* unassign_driver_from_trip: its read and guards
unassign_driver_guard(t, f) ==
    IF trips[t].fleet_owner_id # f THEN Reject(403, "not_your_trip", {})
    ELSE IF trips[t].status # PENDING THEN Reject(400, "not_pending", {})
    ELSE IF trips[t].driver_id = NoDriver THEN Reject(400, "no_driver", {})
    ELSE Pass

unassign_driver_read(r, t, f) ==
    /\ Free(r)
    /\ unassign_driver_guard(t, f) = Pass
    /\ req' = Arrive(r, [NoReq EXCEPT !.op = "unassign_driver", !.trip = t,
                                      !.pc = "commit"])
    /\ UNCHANGED db

\* trip.driver_id = None; trip.status = PLANNED; db.commit()
unassign_driver_commit(r) ==
    /\ req[r].op = "unassign_driver" /\ req[r].pc = "commit"
    /\ trips' = [trips EXCEPT ![req[r].trip].driver_id = NoDriver,
                              ![req[r].trip].status = PLANNED]
    /\ req' = Audited(r)
    /\ UNCHANGED <<stops, locks, billing, pricing_rules, audit_store, others>>

\* ------------------------------------------------------------- start_trip
\* what a Start may assume of the committed rows when it arrives
StartPre(t, d) ==
    /\ trips[t].status = PENDING
    /\ trips[t].driver_id = d
    /\ count_driver_in_progress_trips(d) = 0
    /\ trips[t].vehicle_id # NoVehicle => LiveLocks(trips[t].vehicle_id) = {}

\* ... and of the trips of the Start requests in flight when it arrives
StartPreAll(r, t, d) ==
    /\ StartPre(t, d)
    /\ \A s \in Slots \ {r} :
          (Active(s) /\ req[s].op = "start_trip") => StartPre(req[s].trip, req[s].arg)

\* variant: the ownership check raising HTTP_400_BAD_REQUEST like the status check
start_trip_guard_owner_400(t, d) ==
    IF trips[t].status # PENDING THEN Reject(400, "not_pending", {})
    ELSE IF trips[t].driver_id # d THEN Reject(400, "not_pending", {})
    ELSE Pass

\* start_trip up to the ownership check: its read and guards
start_trip_guard(t, d) ==
    IF trips[t].status # PENDING THEN Reject(400, "not_pending", {})
    ELSE IF trips[t].driver_id # d THEN Reject(403, "not_your_trip", {})
    ELSE Pass

start_trip_read(r, t, d) ==
    /\ Free(r)
    /\ start_trip_guard(t, d) = Pass
    /\ req' = Arrive(r, [NoReq EXCEPT !.op = "start_trip", !.trip = t, !.arg = d,
                                      !.pre = StartPreAll(r, t, d), !.pc = "count"])
    /\ UNCHANGED db

start_trip_count(r) ==
    /\ req[r].op = "start_trip" /\ req[r].pc = "count"
    /\ req' =
         IF count_driver_in_progress_trips(req[r].arg) > 0
         THEN Respond(r, 409, "driver_busy", {})
         ELSE IF trips[req[r].trip].vehicle_id # NoVehicle THEN Goto(r, "lock")
         ELSE Goto(r, "commit")
    /\ UNCHANGED db

\* create_vehicle_lock's flush: the INSERT waits while another transaction
\* holds an uncommitted live lock on the vehicle, then passes the unique
\* index or raises IntegrityError (db.rollback(), 409)
start_trip_lock(r) ==
    /\ req[r].op = "start_trip" /\ req[r].pc = "lock"
    /\ LET v == trips[req[r].trip].vehicle_id
       IN  /\ \A s \in Slots \ {r} : v \notin PendingInsert(s)
           /\ req' = IF ix_vehicle_locks_active(v) THEN Goto(r, "commit")
                     ELSE Respond(r, 409, "vehicle_locked", {})
    /\ UNCHANGED db

\* trip.status = IN_PROGRESS; trip.started_at = now; db.commit()
start_trip_commit(r) ==
    /\ req[r].op = "start_trip" /\ req[r].pc = "commit"
    /\ LET t == req[r].trip
           v == trips[t].vehicle_id
       IN  /\ trips' = [trips EXCEPT ![t].status = IN_PROGRESS,
                                     ![t].started_at = TRUE]
           /\ locks' = IF v = NoVehicle THEN locks
                       ELSE locks \cup {create_vehicle_lock(v, t, req[r].arg)}
    /\ req' = Audited(r)
    /\ UNCHANGED <<stops, billing, pricing_rules, audit_store, others>>

\* ------------------------------------------------------------ complete_stop
\* highest sequence_number among the trip's COMPLETED stops, "or 0"
max_completed_seq(t) ==
    LET done == {k \in Seqs : stops[t][k] = STOP_COMPLETED}
    IN  IF done = {} THEN 0 ELSE CHOOSE k \in done : \A j \in done : j <= k

\* variant: complete_stop without the sequence check
complete_stop_guard_any_order(t, k, d) ==
    IF trips[t].status # IN_PROGRESS THEN Reject(400, "not_in_progress", {})
    ELSE IF trips[t].driver_id # d THEN Reject(403, "not_your_trip", {})
    ELSE IF stops[t][k] = STOP_COMPLETED THEN Reject(400, "already_completed", {})
    ELSE Pass

\* complete_stop up to the sequence check: its reads and guards
complete_stop_guard(t, k, d) ==
    LET expected_next_seq == max_completed_seq(t) + 1
    IN  IF trips[t].status # IN_PROGRESS THEN Reject(400, "not_in_progress", {})
        ELSE IF trips[t].driver_id # d THEN Reject(403, "not_your_trip", {})
        ELSE IF stops[t][k] = STOP_COMPLETED THEN Reject(400, "already_completed", {})
        ELSE IF k # expected_next_seq
             THEN Reject(400, "out_of_order", {expected_next_seq})
        ELSE Pass

complete_stop_read(r, t, k, d) ==
    /\ Free(r)
    /\ complete_stop_guard(t, k, d) = Pass
    /\ req' = Arrive(r, [NoReq EXCEPT !.op = "complete_stop", !.trip = t,
                                      !.seq = k, !.pc = "commit"])
    /\ UNCHANGED db

\* stop.status = COMPLETED; stop.completed_at = now; db.commit()
complete_stop_commit(r) ==
    /\ req[r].op = "complete_stop" /\ req[r].pc = "commit"
    /\ stops' = [stops EXCEPT ![req[r].trip][req[r].seq] = STOP_COMPLETED]
    /\ req' = Audited(r)
    /\ UNCHANGED <<trips, locks, billing, pricing_rules, audit_store, others>>

\* ------------------------------------------------------------------ billing
\* the attributes the mapped classes define (models/trip.py, models/parcel.py)
TripAttributes ==
    {"id", "fleet_owner_id", "route_id", "vehicle_id", "driver_id", "status",
     "created_at", "updated_at", "started_at", "completed_at"}
ParcelAttributes ==
    {"id", "hub_id", "hub_owner_id", "reference_code", "description",
     "weight_kg", "length_cm", "width_cm", "height_cm", "quantity",
     "delivery_due_date", "status", "is_active", "created_at", "updated_at"}

\* the clock resolve_active_rule reads, and the pricing rule in force
NoTime == {}
Now == 10
GlobalRule ==
    [id |-> 1, base_rate_per_km |-> 2, weight_surcharge_per_kg |-> 3,
     is_active |-> TRUE, effective_from |-> 0, effective_until |-> NoTime]

\* variant: the query without its effective_until condition
resolve_active_rule_ignoring_until ==
    LET valid == {p \in pricing_rules : p.is_active /\ p.effective_from <= Now}
    IN  {p \in valid : \A o \in valid : o.effective_from <= p.effective_from}

\* PricingResolver.resolve_active_rule: the rules the query returns (limit 1)
resolve_active_rule ==
    LET valid == {p \in pricing_rules :
                     /\ p.is_active
                     /\ p.effective_from <= Now
                     /\ \A until \in p.effective_until : until >= Now}
    IN  {p \in valid : \A o \in valid : o.effective_from <= p.effective_from}

Raise(err) == [ok |-> FALSE, err |-> err, charge |-> {}, settlement |-> {},
               entries |-> {}]

\* steps 4 to 7 of process_trip: the TripCharge, the Settlement and the two
\* LedgerEntry rows it adds for trip t under pricing rule `rule`
billing_rows(t, rule) ==
    LET distance_km == haversine_distance(trips[t].route_id, trips[t].route_id)
        base_charge == distance_km * rule.base_rate_per_km
        surcharge == parcel_weight_kg(t) * rule.weight_surcharge_per_kg
        total_amount == base_charge + surcharge
        sid == Cardinality(settlements) + 1
        trip_charge ==
            [id |-> Cardinality(charges) + 1, trip_id |-> t,
             hub_owner_id |-> HubOwner, fleet_owner_id |-> trips[t].fleet_owner_id,
             pricing_rule_id |-> rule.id, distance_km |-> distance_km,
             weight_kg |-> parcel_weight_kg(t), base_charge |-> base_charge,
             surcharge |-> surcharge, total_charge |-> total_amount,
             settlement_id |-> sid]
        settlement ==
            [id |-> sid, hub_owner_id |-> HubOwner,
             fleet_owner_id |-> trips[t].fleet_owner_id,
             total_amount |-> total_amount, status |-> "PENDING",
             approved_by_admin_id |-> "none", approved_at |-> FALSE,
             paid_at |-> FALSE, updated_at |-> TRUE]
        ledger_debit ==
            [id |-> Cardinality(ledger) + 1, settlement_id |-> sid,
             entry_type |-> "DEBIT", account_owner_id |-> HubOwner,
             amount |-> total_amount]
        ledger_credit ==
            [id |-> Cardinality(ledger) + 2, settlement_id |-> sid,
             entry_type |-> "CREDIT", account_owner_id |-> trips[t].fleet_owner_id,
             amount |-> total_amount]
    IN  [ok |-> TRUE, err |-> "none", charge |-> {trip_charge},
         settlement |-> {settlement}, entries |-> {ledger_debit, ledger_credit}]

\* trip_charges.trip_id is unique: the flush of a second charge for the trip
\* raises IntegrityError
trip_charges_trip_id_unique(t) == \A c \in charges : c.trip_id # t

\* variant: a process_trip that loads the trip and the parcel weight as the
\* models declare them, and adds its rows with neither the lookup of an
\* existing charge nor the unique constraint on trip_id
process_trip_unguarded(t, st) ==
    IF st # COMPLETED THEN Raise("ValueError")
    ELSE IF resolve_active_rule = {} THEN Raise("ValueError")
    ELSE billing_rows(t, CHOOSE p \in resolve_active_rule : TRUE)

\* BillingService.process_trip in a session that sees the trip with status
\* st: what it raises, or the rows it adds and the charge it returns
process_trip(t, st) ==
    IF ~({"trip_stops", "route"} \subseteq TripAttributes)
    THEN Raise("AttributeError")        \* joinedload(Trip.trip_stops)
    ELSE IF st # COMPLETED THEN Raise("ValueError")
    ELSE IF \E c \in charges : c.trip_id = t
    THEN Raise("ResourceClosedError")   \* scalar_one() on the consumed result
    ELSE IF "weight" \notin ParcelAttributes
    THEN Raise("AttributeError")        \* parcel.weight
    ELSE IF resolve_active_rule = {} THEN Raise("ValueError")
    ELSE IF ~trip_charges_trip_id_unique(t) THEN Raise("IntegrityError")
    ELSE billing_rows(t, CHOOSE p \in resolve_active_rule : TRUE)

\* BillingService.process_trip called on its own session, which the caller
\* commits when the call returns and closes (rolls back) when it raises
process_trip_call(r, t) ==
    /\ Free(r)
    /\ LET q == Arrive(r, [NoReq EXCEPT !.op = "process_trip", !.trip = t])
           res == process_trip(t, trips[t].status)
       IN  IF res.ok
           THEN /\ charges' = charges \cup res.charge
                /\ settlements' = settlements \cup res.settlement
                /\ ledger' = ledger \cup res.entries
                /\ req' = [q EXCEPT ![r].code = 200, ![r].reason = "ok",
                                    ![r].value = {c.id : c \in res.charge}]
           ELSE /\ UNCHANGED billing
                /\ req' = [q EXCEPT ![r].code = 500, ![r].reason = res.err]
    /\ UNCHANGED <<trips, stops, locks, pricing_rules, audit_store, others>>

\* ------------------------------------------------------------ complete_trip
pending_stops(t) == {k \in Seqs : stops[t][k] # STOP_COMPLETED}

\* variant: the stop query filtering on status PENDING, so that a SKIPPED
\* stop does not hold the completion back
\* ------------------------------------------------ settlement administration
SettlementIds == {1, 2}
Admin == "admin1"

\* approve_settlement up to its status check
approve_settlement_guard(sid) ==
    IF ~\E x \in settlements : x.id = sid
    THEN Reject(404, "settlement_not_found", {})
    ELSE IF \E x \in settlements : x.id = sid /\ x.status # "PENDING"
    THEN Reject(400, "not_pending", {})
    ELSE Pass

approve_settlement_read(r, sid) ==
    /\ Free(r)
    /\ approve_settlement_guard(sid) = Pass
    /\ req' = Arrive(r, [NoReq EXCEPT !.op = "approve_settlement", !.seq = sid,
                                      !.pc = "commit"])
    /\ UNCHANGED db

\* variant: the approval also writes the amount the admin agreed to pay
approve_settlement_row_resets_amount(x) ==
    [x EXCEPT !.status = "APPROVED", !.approved_by_admin_id = Admin,
              !.approved_at = TRUE, !.updated_at = TRUE, !.total_amount = 0]

\* the columns approve_settlement assigns
approve_settlement_row(x) ==
    [x EXCEPT !.status = "APPROVED", !.approved_by_admin_id = Admin,
              !.approved_at = TRUE, !.updated_at = TRUE]

approve_settlement_commit(r) ==
    /\ req[r].op = "approve_settlement" /\ req[r].pc = "commit"
    /\ settlements' = {IF x.id = req[r].seq THEN approve_settlement_row(x) ELSE x :
                         x \in settlements}
    /\ req' = Audited(r)
    /\ UNCHANGED <<trips, stops, locks, charges, ledger, pricing_rules,
                   audit_store, others>>

\* mark_settlement_paid up to its status check
mark_settlement_paid_guard(sid) ==
    IF ~\E x \in settlements : x.id = sid
    THEN Reject(404, "settlement_not_found", {})
    ELSE IF \E x \in settlements : x.id = sid /\ x.status # "APPROVED"
    THEN Reject(400, "not_approved", {})
    ELSE Pass

mark_settlement_paid_read(r, sid) ==
    /\ Free(r)
    /\ mark_settlement_paid_guard(sid) = Pass
    /\ req' = Arrive(r, [NoReq EXCEPT !.op = "mark_settlement_paid", !.seq = sid,
                                      !.pc = "commit"])
    /\ UNCHANGED db

\* the columns mark_settlement_paid assigns
mark_settlement_paid_row(x) ==
    [x EXCEPT !.status = "PAID", !.paid_at = TRUE, !.updated_at = TRUE]

mark_settlement_paid_commit(r) ==
    /\ req[r].op = "mark_settlement_paid" /\ req[r].pc = "commit"
    /\ settlements' = {IF x.id = req[r].seq THEN mark_settlement_paid_row(x) ELSE x :
                         x \in settlements}
    /\ req' = Audited(r)
    /\ UNCHANGED <<trips, stops, locks, charges, ledger, pricing_rules,
                   audit_store, others>>

complete_trip_guard_pending_only(t, d) ==
    LET pending == {k \in Seqs : stops[t][k] = STOP_PENDING}
    IN  IF trips[t].status # IN_PROGRESS THEN Reject(400, "not_in_progress", {})
        ELSE IF trips[t].driver_id # d THEN Reject(403, "not_your_trip", {})
        ELSE IF pending # {} THEN Reject(400, "pending_stops", pending)
        ELSE Pass

\* complete_trip up to the stop check: its reads and guards
complete_trip_guard(t, d) ==
    IF trips[t].status # IN_PROGRESS THEN Reject(400, "not_in_progress", {})
    ELSE IF trips[t].driver_id # d THEN Reject(403, "not_your_trip", {})
    ELSE IF pending_stops(t) # {} THEN Reject(400, "pending_stops", pending_stops(t))
    ELSE Pass

complete_trip_read(r, t, d) ==
    /\ Free(r)
    /\ complete_trip_guard(t, d) = Pass
    /\ req' = Arrive(r, [NoReq EXCEPT !.op = "complete_trip", !.trip = t,
                                      !.pc = "finish"])
    /\ UNCHANGED db

\* What the billing error becomes: ValueError is answered 409, any other
\* exception 500.
BillingFailure(err) == IF err = "ValueError" THEN 409 ELSE 500

\* variant: the billing failure is logged and the completion committed
complete_trip_commits_always(res) == TRUE

\* variant: "except Exception" logging the error and going on to db.commit()
complete_trip_commits_unless_value_error(res) == res.ok \/ res.err # "ValueError"

\* db.commit() is reached only when process_trip returned: both except
\* clauses raise HTTPException, and get_db closes the session uncommitted.
complete_trip_commits(res) == res.ok

\* The rest of complete_trip: release the lock (flush), set the status,
\* process the billing, log it, and db.commit() if both returned.
complete_trip_finish(r) ==
    /\ req[r].op = "complete_trip" /\ req[r].pc = "finish"
    /\ LET t == req[r].trip
           v == trips[t].vehicle_id
           rel == IF v # NoVehicle THEN release_vehicle_lock(v, t).rows ELSE locks
           billed == process_trip(t, COMPLETED)
           \* log_event(TRIP_CHARGE_CALCULATED) inside the try: its
           \* exception is caught by "except Exception" like a billing one
           res == IF billed.ok /\ ~log_event THEN Raise("SQLAlchemyError") ELSE billed
       IN  /\ IF complete_trip_commits(res)
              THEN /\ trips' = [trips EXCEPT ![t].status = COMPLETED,
                                             ![t].completed_at = TRUE]
                   /\ locks' = rel
                   /\ charges' = charges \cup res.charge
                   /\ settlements' = settlements \cup res.settlement
                   /\ ledger' = ledger \cup res.entries
              ELSE UNCHANGED <<trips, locks, billing>>
           /\ req' = IF res.ok THEN Respond(r, 200, "ok", {})
                     ELSE Respond(r, BillingFailure(res.err), "billing_failed", {})
    /\ UNCHANGED <<stops, pricing_rules, audit_store, others>>

\* ---------------------------------------------------------- CircuitBreaker
CLOSED == "CLOSED"
OPEN == "OPEN"
HALF_OPEN == "HALF_OPEN"

\* CircuitBreaker(failure_threshold=FailureThreshold, reset_timeout=ResetTimeout)
FailureThreshold == 2
ResetTimeout == 2
MaxClock == 6

\* __init__
NewBreaker == [failures |-> 0, last_failure_time |-> 0, state |-> CLOSED]

\* variant: record_failure opening with "failures > failure_threshold"
record_failure_above_threshold(b, now) ==
    [failures |-> b.failures + 1, last_failure_time |-> now,
     state |-> IF b.failures + 1 > FailureThreshold THEN OPEN ELSE b.state]

record_failure(b, now) ==
    [failures |-> b.failures + 1, last_failure_time |-> now,
     state |-> IF b.failures + 1 >= FailureThreshold THEN OPEN ELSE b.state]

reset_state(b) == [b EXCEPT !.failures = 0, !.state = CLOSED]

\* call, up to the await of the wrapped function: an OPEN breaker raises
\* CircuitOpenError, or turns HALF_OPEN when reset_timeout has passed
call_enter(r) ==
    /\ Free(r)
    /\ LET q == [NoReq EXCEPT !.op = "call"]
       IN  IF breaker.state = OPEN /\ ~(clock - breaker.last_failure_time > ResetTimeout)
           THEN /\ req' = Arrive(r, [q EXCEPT !.code = 503, !.reason = "CircuitOpenError"])
                /\ UNCHANGED breaker
           ELSE /\ req' = Arrive(r, [q EXCEPT !.pc = "func"])
                /\ breaker' = IF breaker.state = OPEN
                              THEN [breaker EXCEPT !.state = HALF_OPEN] ELSE breaker
    /\ UNCHANGED <<trips, stops, locks, billing, pricing_rules, audit_store, clock,
                   route_requests, trip_map, user_active, user_revoked>>

\* the wrapped function returns (ok) or raises
call_return(r, ok) ==
    /\ req[r].op = "call" /\ req[r].pc = "func"
    /\ IF ok
       THEN /\ breaker' = IF breaker.state = HALF_OPEN THEN reset_state(breaker)
                          ELSE breaker
            /\ req' = Respond(r, 200, "ok", {})
       ELSE /\ breaker' = record_failure(breaker, clock)
            /\ req' = Respond(r, 500, "Exception", {})
    /\ UNCHANGED <<trips, stops, locks, billing, pricing_rules, audit_store, clock,
                   route_requests, trip_map, user_active, user_revoked>>

\* time passes
Tick ==
    /\ clock < MaxClock
    /\ clock' = clock + 1
    /\ UNCHANGED <<trips, stops, locks, billing, pricing_rules, audit_store, breaker,
                   route_requests, trip_map, user_active, user_revoked, req>>

\* ----------------------------------------------- route requests and trips
RouteRequests == {1, 2}
REQ_PENDING == "REQ_PENDING"
ACCEPTED == "ACCEPTED"
REJECTED == "REJECTED"
RouteRequestStatus == {REQ_PENDING, ACCEPTED, REJECTED}

\* a hub_route_requests row as the hub owner's request leaves it; decided_at
\* is 0 for NULL and otherwise counts the decisions written to the row
NewRequest == [status |-> REQ_PENDING, decision_reason |-> "none", decided_at |-> 0]

\* accept_route_request / reject_route_request up to the immutability check
decision_guard(q, f) ==
    IF f # "f1" THEN Reject(403, "not_your_route", {})
    ELSE IF route_requests[q].status # REQ_PENDING
         THEN Reject(400, "already_decided", {route_requests[q].status})
    ELSE Pass

decision_read(r, q, f, op) ==
    /\ Free(r)
    /\ decision_guard(q, f) = Pass
    /\ req' = Arrive(r, [NoReq EXCEPT !.op = op, !.seq = q, !.pc = "commit"])
    /\ UNCHANGED db

\* route_request.status = ACCEPTED; decided_at = now; db.commit(); log_event
accept_route_request_commit(r) ==
    /\ req[r].op = "accept" /\ req[r].pc = "commit"
    /\ route_requests' = [route_requests EXCEPT ![req[r].seq].status = ACCEPTED,
                                                ![req[r].seq].decided_at = @ + 1]
    /\ req' = Audited(r)
    /\ UNCHANGED <<trips, stops, locks, billing, pricing_rules, audit_store, breaker,
                   clock, trip_map, user_active, user_revoked>>

\* status = REJECTED; decision_reason = reason; decided_at = now; db.commit()
reject_route_request_commit(r) ==
    /\ req[r].op = "reject" /\ req[r].pc = "commit"
    /\ route_requests' = [route_requests EXCEPT ![req[r].seq].status = REJECTED,
                                                ![req[r].seq].decision_reason = "reason",
                                                ![req[r].seq].decided_at = @ + 1]
    /\ req' = Audited(r)
    /\ UNCHANGED <<trips, stops, locks, billing, pricing_rules, audit_store, breaker,
                   clock, trip_map, user_active, user_revoked>>

\* fleet_vehicles.max_weight_kg of the route's vehicle
max_weight_kg == 10

\* variant: route_request_id declared without unique=True
route_request_id_not_unique(q) == TRUE

\* route_request_trip_map.route_request_id: unique=True
route_request_id_unique(q) == \A m \in trip_map : m.route_request_id # q

\* create_trip_from_request up to the capacity check: its reads and guards
create_trip_guard(q, f) ==
    IF route_requests[q].status # ACCEPTED
    THEN Reject(400, "not_accepted", {route_requests[q].status})
    ELSE IF f # "f1" THEN Reject(403, "not_your_route", {})
    ELSE IF \E m \in trip_map : m.route_request_id = q
    THEN Reject(400, "trip_exists", {})
    ELSE IF parcel_weight_kg(q) > max_weight_kg THEN Reject(400, "capacity", {})
    ELSE Pass

create_trip_read(r, q, f) ==
    /\ Free(r)
    /\ create_trip_guard(q, f) = Pass
    /\ req' = Arrive(r, [NoReq EXCEPT !.op = "create_trip", !.seq = q, !.pc = "commit"])
    /\ UNCHANGED db

\* ------------------------------------------------------------------- Init
NewTrip(v, route, created) ==
    [status |-> PLANNED, driver_id |-> NoDriver, vehicle_id |-> v,
     route_id |-> route, fleet_owner_id |-> "f1", created_at |-> created,
     started_at |-> FALSE, completed_at |-> FALSE]

\* trips are created a day apart
CreatedAt(t) == 24 * (t - 1)

\* The rest of create_trip_from_request: the Trip, its two stops and the map
\* row are inserted and committed together; the unique route_request_id
\* makes the commit of a second map row for the request raise IntegrityError,
\* which nothing catches (500, session closed uncommitted).
create_trip_commit(r) ==
    /\ req[r].op = "create_trip" /\ req[r].pc = "commit"
    /\ LET q == req[r].seq
           id == Cardinality(DOMAIN trips) + 1
       IN  IF route_request_id_unique(q)
           THEN /\ trips' = trips @@ (id :> NewTrip("v1", q, CreatedAt(id)))
                /\ stops' = stops @@ (id :> [k \in Seqs |-> STOP_PENDING])
                /\ trip_map' = trip_map \cup {[route_request_id |-> q, trip_id |-> id]}
                /\ req' = IF log_event THEN Respond(r, 201, "created", {id})
                          ELSE Respond(r, 500, "audit_failed", {})
           ELSE /\ UNCHANGED <<trips, stops, trip_map>>
                /\ req' = Respond(r, 500, "IntegrityError", {})
    /\ UNCHANGED <<locks, billing, pricing_rules, audit_store, breaker, clock,
                   route_requests, user_active, user_revoked>>

\* ------------------------------------------------- blocking and tokens
\* the tables and keys the access handlers leave alone
tables == <<trips, stops, locks, charges, settlements, ledger, pricing_rules,
            audit_store, breaker, clock, route_requests, trip_map>>

\* block_user up to the "already blocked" check
block_user_guard == IF ~user_active THEN Reject(400, "already_blocked", {}) ELSE Pass

block_user_read(r) ==
    /\ Free(r)
    /\ block_user_guard = Pass
    /\ req' = Arrive(r, [NoReq EXCEPT !.op = "block_user", !.pc = "commit"])
    /\ UNCHANGED db

\* target_user.is_active = False; db.commit()
block_user_commit(r) ==
    /\ req[r].op = "block_user" /\ req[r].pc = "commit"
    /\ user_active' = FALSE
    /\ req' = Goto(r, "revoke")
    /\ UNCHANGED <<tables, user_revoked>>

\* revoke_all_user_tokens: setex of the user's revoked key; log_admin_action
block_user_revoke(r) ==
    /\ req[r].op = "block_user" /\ req[r].pc = "revoke"
    /\ user_revoked' = TRUE
    /\ req' = Audited(r)
    /\ UNCHANGED <<tables, user_active>>

\* unblock_user up to the "already active" check
unblock_user_guard == IF user_active THEN Reject(400, "already_active", {}) ELSE Pass

unblock_user_read(r) ==
    /\ Free(r)
    /\ unblock_user_guard = Pass
    /\ req' = Arrive(r, [NoReq EXCEPT !.op = "unblock_user", !.pc = "commit"])
    /\ UNCHANGED db

\* target_user.is_active = True; db.commit()
unblock_user_commit(r) ==
    /\ req[r].op = "unblock_user" /\ req[r].pc = "commit"
    /\ user_active' = TRUE
    /\ req' = Goto(r, "clear")
    /\ UNCHANGED <<tables, user_revoked>>

\* clear_user_token_revocation: delete of the key; log_admin_action
unblock_user_clear(r) ==
    /\ req[r].op = "unblock_user" /\ req[r].pc = "clear"
    /\ user_revoked' = FALSE
    /\ req' = Audited(r)
    /\ UNCHANGED <<tables, user_active>>

\* get_current_user for a request bearing a valid token of the user: what
\* it raises (401 for the revoked key, 403 for an inactive user), or Pass
get_current_user ==
    IF user_revoked THEN Reject(401, "revoked", {})
    ELSE IF ~user_active THEN Reject(403, "inactive", {})
    ELSE Pass

\* an authenticated request of the user (GET /auth/me)
authenticated_request(r) ==
    /\ Free(r)
    /\ LET q == [NoReq EXCEPT !.op = "me"]
       IN  req' = IF get_current_user = Pass
                  THEN Arrive(r, [q EXCEPT !.code = 200, !.reason = "ok"])
                  ELSE Arrive(r, [q EXCEPT !.code = get_current_user.code,
                                           !.reason = get_current_user.reason])
    /\ UNCHANGED db

InitOthers ==
    /\ breaker = NewBreaker
    /\ clock = 0
    /\ route_requests = [q \in RouteRequests |-> NewRequest]
    /\ trip_map = {}
    /\ user_active = TRUE
    /\ user_revoked = FALSE

\* trips as create_trip_from_request leaves them: PLANNED, no driver, the
\* route's vehicle (if any), the stops PENDING
Init ==
    /\ \E v2 \in Vehicles \cup {NoVehicle} :
          trips = [t \in Trips |->
                      NewTrip(IF t = 1 THEN "v1" ELSE v2, t, CreatedAt(t))]
    /\ stops = [t \in Trips |-> [k \in Seqs |-> STOP_PENDING]]
    /\ locks = {}
    /\ charges = {}
    /\ settlements = {}
    /\ ledger = {}
    /\ pricing_rules = {GlobalRule}
    /\ audit_store = "up"
    /\ InitOthers
    /\ req = [r \in Slots |-> NoReq]

\* the same, with the audit_logs table refusing writes
InitAudit ==
    /\ \E v2 \in Vehicles \cup {NoVehicle} :
          trips = [t \in Trips |->
                      NewTrip(IF t = 1 THEN "v1" ELSE v2, t, CreatedAt(t))]
    /\ stops = [t \in Trips |-> [k \in Seqs |-> STOP_PENDING]]
    /\ locks = {}
    /\ charges = {}
    /\ settlements = {}
    /\ ledger = {}
    /\ pricing_rules = {GlobalRule}
    /\ audit_store = "down"
    /\ InitOthers
    /\ req = [r \in Slots |-> NoReq]

\* A database that already holds rows of earlier activity: trip 1 is
\* terminal, either CANCELLED or COMPLETED with the lock it held released
\* and the financial chain section 4.5 describes; trip 2 is new, and a stop
\* of it may have been marked SKIPPED.
InitSeeded ==
    /\ \E billed \in BOOLEAN, st2 \in [Seqs -> {STOP_PENDING, STOP_SKIPPED}] :
          /\ trips = [t \in Trips |->
                IF t = 2 THEN NewTrip("v1", t, CreatedAt(t))
                ELSE IF billed
                THEN [NewTrip("v1", t, CreatedAt(t)) EXCEPT !.status = COMPLETED,
                          !.driver_id = "d1", !.started_at = TRUE,
                          !.completed_at = TRUE]
                ELSE [NewTrip("v1", t, CreatedAt(t)) EXCEPT !.status = CANCELLED]]
          /\ stops = [t \in Trips |->
                IF t = 2 THEN st2
                ELSE [k \in Seqs |-> IF billed THEN STOP_COMPLETED ELSE STOP_PENDING]]
          /\ locks = IF billed
                     THEN {[id |-> 1, vehicle_id |-> "v1", trip_id |-> 1,
                            locked_by_driver_id |-> "d1", released |-> TRUE]}
                     ELSE {}
          /\ pricing_rules = {GlobalRule}
          /\ audit_store = "up"
          /\ InitOthers
          /\ LET rule == GlobalRule
                 total == haversine_distance(1, 1) * rule.base_rate_per_km
                            + parcel_weight_kg(1) * rule.weight_surcharge_per_kg
             IN  /\ charges = IF ~billed THEN {} ELSE
                       {[id |-> 1, trip_id |-> 1, hub_owner_id |-> HubOwner,
                         fleet_owner_id |-> "f1", pricing_rule_id |-> rule.id,
                         distance_km |-> haversine_distance(1, 1),
                         weight_kg |-> parcel_weight_kg(1),
                         base_charge |-> haversine_distance(1, 1) * rule.base_rate_per_km,
                         surcharge |-> parcel_weight_kg(1) * rule.weight_surcharge_per_kg,
                         total_charge |-> total, settlement_id |-> 1]}
                 /\ settlements = IF ~billed THEN {} ELSE
                       {[id |-> 1, hub_owner_id |-> HubOwner, fleet_owner_id |-> "f1",
                         total_amount |-> total, status |-> "PENDING",
                         approved_by_admin_id |-> "none", approved_at |-> FALSE,
                         paid_at |-> FALSE, updated_at |-> TRUE]}
                 /\ ledger = IF ~billed THEN {} ELSE
                       {[id |-> 1, settlement_id |-> 1, entry_type |-> "DEBIT",
                         account_owner_id |-> HubOwner, amount |-> total],
                        [id |-> 2, settlement_id |-> 1, entry_type |-> "CREDIT",
                         account_owner_id |-> "f1", amount |-> total]}
    /\ req = [r \in Slots |-> NoReq]

Next ==
    \E r \in Slots :
        \/ \E t \in Trips, f \in FleetOwners, d \in Drivers :
              assign_driver_read(r, t, f, d)
        \/ assign_driver_commit(r)
        \/ \E t \in Trips, f \in FleetOwners : unassign_driver_read(r, t, f)
        \/ unassign_driver_commit(r)
        \/ \E t \in Trips, d \in Drivers : start_trip_read(r, t, d)
        \/ start_trip_count(r)
        \/ start_trip_lock(r)
        \/ start_trip_commit(r)
        \/ \E t \in Trips, k \in Seqs, d \in Drivers : complete_stop_read(r, t, k, d)
        \/ complete_stop_commit(r)
        \/ \E t \in Trips, d \in Drivers : complete_trip_read(r, t, d)
        \/ complete_trip_finish(r)
        \/ \E t \in Trips : process_trip_call(r, t)

Spec == Init /\ [][Next]_vars

AuditSpec == InitAudit /\ [][Next]_vars

SeededSpec == InitSeeded /\ [][Next]_vars

\* the trip handlers together with the settlement administration
NextBilling ==
    \/ Next
    \/ \E r \in Slots :
          \/ \E sid \in SettlementIds : approve_settlement_read(r, sid)
          \/ approve_settlement_commit(r)
          \/ \E sid \in SettlementIds : mark_settlement_paid_read(r, sid)
          \/ mark_settlement_paid_commit(r)

BillingSpec == InitSeeded /\ [][NextBilling]_vars

\* ------------------------------------------- can_assign_driver_to_trip alone
\* The trips table as can_assign_driver_to_trip may be handed it: trip 3 is
\* the candidate, PLANNED and unassigned, created at hour 72; trips 1 and 2
\* are of any driver, status, route and age.
ConnTrips == {1, 2, 3}
Candidate == 3
ConnRoutes == {1, 2, 3}
ConnHours == {0, 1, 23, 24, 48, 72, 120, 121}

InitConn ==
    /\ \E held \in [ConnTrips \ {Candidate} ->
                      [driver_id : {"d1", NoDriver}, status : {PLANNED, PENDING},
                       route_id : ConnRoutes, created_at : ConnHours]],
          route \in ConnRoutes :
          trips = [t \in ConnTrips |->
                     IF t = Candidate THEN NewTrip(NoVehicle, route, 72)
                     ELSE [NewTrip(NoVehicle, held[t].route_id, held[t].created_at)
                              EXCEPT !.driver_id = held[t].driver_id,
                                     !.status = held[t].status]]
    /\ stops = [t \in ConnTrips |-> [k \in Seqs |-> STOP_PENDING]]
    /\ locks = {}
    /\ charges = {}
    /\ settlements = {}
    /\ ledger = {}
    /\ pricing_rules = {GlobalRule}
    /\ audit_store = "up"
    /\ InitOthers
    /\ req = [r \in Slots |-> NoReq]

\* can_assign_driver_to_trip(db, d, t) returns: (True, ...) or (False, the
\* first held trip of the result that is not connected)
can_assign_call(r, d, t) ==
    /\ Free(r)
    /\ LET veto == can_assign_driver_to_trip(d, t)
           q == [NoReq EXCEPT !.op = "can_assign", !.trip = t, !.arg = d]
       IN  IF veto = {}
           THEN req' = Arrive(r, [q EXCEPT !.code = 200, !.reason = "admit"])
           ELSE \E x \in veto :
                   req' = Arrive(r, [q EXCEPT !.code = 400, !.reason = "not_connected",
                                              !.value = {x}])
    /\ UNCHANGED db

NextConn == \E r \in Slots, d \in Drivers : can_assign_call(r, d, Candidate)

ConnSpec == InitConn /\ [][NextConn]_vars

\* ----------------------------------------- resolve_active_rule on its own
\* The pricing_rules table as an administrator may have filled it: up to
\* three rules, switched on or off, with their validity periods.
RuleIds == {1, 2, 3}
RuleFrom == {0, 5, Now, Now + 1}
RuleUntil == {NoTime, {Now - 1}, {Now}}

RuleRows(i) ==
    {[GlobalRule EXCEPT !.id = i, !.is_active = a, !.effective_from = f,
                        !.effective_until = u] :
        a \in BOOLEAN, f \in RuleFrom, u \in RuleUntil}

InitRules ==
    /\ \E present \in SUBSET RuleIds :
       \E row \in [present -> UNION {RuleRows(i) : i \in RuleIds}] :
          /\ \A i \in present : row[i].id = i
          /\ pricing_rules = {row[i] : i \in present}
    /\ audit_store = "up"
    /\ InitOthers
    /\ trips = [t \in Trips |-> NewTrip(NoVehicle, t, CreatedAt(t))]
    /\ stops = [t \in Trips |-> [k \in Seqs |-> STOP_PENDING]]
    /\ locks = {}
    /\ charges = {}
    /\ settlements = {}
    /\ ledger = {}
    /\ req = [r \in Slots |-> NoReq]

\* PricingResolver.resolve_active_rule(db) returns a rule or raises ValueError
resolve_active_rule_call(r) ==
    /\ Free(r)
    /\ LET q == [NoReq EXCEPT !.op = "resolve_active_rule"]
       IN  IF resolve_active_rule = {}
           THEN req' = Arrive(r, [q EXCEPT !.code = 500, !.reason = "ValueError"])
           ELSE \E p \in resolve_active_rule :
                   req' = Arrive(r, [q EXCEPT !.code = 200, !.reason = "ok",
                                              !.value = {p}])
    /\ UNCHANGED db

NextRules == \E r \in Slots : resolve_active_rule_call(r)

RuleSpec == InitRules /\ [][NextRules]_vars

\* ---------------------------------------- release_vehicle_lock on its own
\* The vehicle_locks table as Starts and completions may have left it: up to
\* three rows over two vehicles, at most one of them unreleased per vehicle
\* (ix_vehicle_locks_active).
LockIds == {1, 2, 3}
LockVehicles == {"v1", "v2"}

LockRows(i) ==
    {[id |-> i, vehicle_id |-> v, trip_id |-> t, locked_by_driver_id |-> "d1",
      released |-> rel] :
        v \in LockVehicles, t \in Trips, rel \in BOOLEAN}

InitLocks ==
    /\ \E present \in SUBSET LockIds :
       \E row \in [present -> UNION {LockRows(i) : i \in LockIds}] :
          /\ \A i \in present : row[i].id = i
          /\ \A i, j \in present :
                (i # j /\ row[i].vehicle_id = row[j].vehicle_id)
                => (row[i].released \/ row[j].released)
          /\ locks = {row[i] : i \in present}
    /\ trips = [t \in Trips |-> NewTrip("v1", t, CreatedAt(t))]
    /\ stops = [t \in Trips |-> [k \in Seqs |-> STOP_PENDING]]
    /\ charges = {}
    /\ settlements = {}
    /\ ledger = {}
    /\ pricing_rules = {GlobalRule}
    /\ audit_store = "up"
    /\ InitOthers
    /\ req = [r \in Slots |-> NoReq]

\* release_vehicle_lock(db, v, t) returns True or False; the caller commits
release_call(r, v, t) ==
    /\ Free(r)
    /\ LET res == release_vehicle_lock(v, t)
       IN  /\ locks' = res.rows
           /\ req' = Arrive(r, [NoReq EXCEPT !.op = "release_vehicle_lock",
                                   !.trip = t, !.arg = v, !.code = 200,
                                   !.reason = IF res.found THEN "true" ELSE "false"])
    /\ UNCHANGED <<trips, stops, billing, pricing_rules, audit_store, others>>

NextLocks == \E r \in Slots, v \in LockVehicles, t \in Trips : release_call(r, v, t)

LockSpec == InitLocks /\ [][NextLocks]_vars

\* ------------------------------------------------- the CircuitBreaker alone
NextBreaker ==
    \/ Tick
    \/ \E r \in Slots : call_enter(r)
    \/ \E r \in Slots, ok \in BOOLEAN : call_return(r, ok)

BreakerSpec == Init /\ [][NextBreaker]_vars

\* ------------------------------- route request decisions and trip creation
\* no trip exists yet; the hub owners' requests are waiting for a decision
InitRequests ==
    /\ trips = <<>>
    /\ stops = <<>>
    /\ locks = {}
    /\ charges = {}
    /\ settlements = {}
    /\ ledger = {}
    /\ pricing_rules = {GlobalRule}
    /\ audit_store = "up"
    /\ InitOthers
    /\ req = [r \in Slots |-> NoReq]

NextRequests ==
    \E r \in Slots :
        \/ \E q \in RouteRequests, f \in FleetOwners : decision_read(r, q, f, "accept")
        \/ \E q \in RouteRequests, f \in FleetOwners : decision_read(r, q, f, "reject")
        \/ accept_route_request_commit(r)
        \/ reject_route_request_commit(r)
        \/ \E q \in RouteRequests, f \in FleetOwners : create_trip_read(r, q, f)
        \/ create_trip_commit(r)

RequestSpec == InitRequests /\ [][NextRequests]_vars

\* ------------------------------------------ blocking a user and its tokens
NextAccess ==
    \E r \in Slots :
        \/ block_user_read(r)
        \/ block_user_commit(r)
        \/ block_user_revoke(r)
        \/ unblock_user_read(r)
        \/ unblock_user_commit(r)
        \/ unblock_user_clear(r)
        \/ authenticated_request(r)

AccessSpec == Init /\ [][NextAccess]_vars

\* ===================================================================
\* Properties
\* ===================================================================

\* C1: at no time does a vehicle have more than one unreleased VehicleLock
\* row, whatever the interleaving of Start and CompleteTrip requests.
C1_OneLiveLockPerVehicle ==
    \A v \in Vehicles : Cardinality(LiveLocks(v)) <= 1

\* a second Start on the locked vehicle, overlapping the first, was refused
C1_Witness ==
    \E r, s \in Slots :
        /\ Overlapped(r, s)
        /\ req[r].op = "start_trip" /\ req[r].code = 200
        /\ req[s].op = "start_trip" /\ req[s].reason = "vehicle_locked"
        /\ Cardinality(LiveLocks(trips[req[r].trip].vehicle_id)) = 1

\* two Start requests that overlapped, both answered, for different trips on
\* one vehicle, which found both trips PENDING, their drivers' own and idle,
\* and the vehicle free once both had arrived
ConcurrentStarts(r, s) ==
    /\ Overlapped(r, s)
    /\ req[r].op = "start_trip" /\ req[s].op = "start_trip"
    /\ ~Active(r) /\ ~Active(s)
    /\ req[r].pre /\ req[s].pre
    /\ req[r].trip # req[s].trip
    /\ trips[req[r].trip].vehicle_id # NoVehicle
    /\ trips[req[r].trip].vehicle_id = trips[req[s].trip].vehicle_id

\* C2: of two concurrent Start requests for different PENDING trips on one
\* vehicle exactly one succeeds and its trip is IN_PROGRESS; the other is
\* answered 409, its trip is still PENDING with started_at unset, and no
\* lock row names it.
C2_ConcurrentStartOneWinner ==
    \A r, s \in Slots :
        ConcurrentStarts(r, s) =>
            \E w, l \in {r, s} :
                /\ w # l
                /\ req[w].code = 200
                /\ trips[req[w].trip].status = IN_PROGRESS
                /\ req[l].code = 409
                /\ trips[req[l].trip].status = PENDING
                /\ ~trips[req[l].trip].started_at
                /\ \A k \in locks : k.trip_id # req[l].trip

\* the two requests raced on the index: the loser was refused by it
C2_Witness ==
    \E r, s \in Slots :
        /\ ConcurrentStarts(r, s)
        /\ req[r].code = 200
        /\ req[s].reason = "vehicle_locked"

\* C3: a CompleteTrip whose settlement processing fails commits nothing: the
\* trip, its completed_at, the locks, the stops and the financial rows are
\* what they were before the request finished.
C3_BillingFailureCommitsNothing ==
    [][\A r \in Slots :
          (req[r].op = "complete_trip" /\ req[r].pc = "finish"
              /\ req'[r].pc = "done" /\ req'[r].code # 200)
          => db' = db]_vars

\* a CompleteTrip was answered with the billing failure and the trip is
\* IN_PROGRESS, not completed, its lock live, and nothing is billed
C3_Witness ==
    \E r \in Slots :
        /\ req[r].op = "complete_trip" /\ req[r].reason = "billing_failed"
        /\ trips[req[r].trip].status = IN_PROGRESS
        /\ ~trips[req[r].trip].completed_at
        /\ \E k \in locks : k.trip_id = req[r].trip /\ ~k.released
        /\ \A c \in charges : c.trip_id # req[r].trip

ChargesOf(t) == {c \in charges : c.trip_id = t}

\* C4: ProcessTrip on a COMPLETED trip that already has a TripCharge returns
\* that charge without error and adds no TripCharge, Settlement or
\* LedgerEntry.
C4_ReplayReturnsSameCharge ==
    \A r \in Slots :
        (req[r].op = "process_trip"
            /\ trips[req[r].trip].status = COMPLETED
            /\ ChargesOf(req[r].trip) # {})
        => /\ req[r].code = 200
           /\ req[r].value = {c.id : c \in ChargesOf(req[r].trip)}
           /\ Cardinality(ChargesOf(req[r].trip)) = 1
           /\ Cardinality(settlements) = Cardinality(charges)
           /\ Cardinality(ledger) = 2 * Cardinality(settlements)

EntriesOf(s, type) ==
    {e \in ledger : e.settlement_id = s.id /\ e.entry_type = type}

DoubleEntry(s) ==
    /\ Cardinality({e \in ledger : e.settlement_id = s.id}) = 2
    /\ Cardinality(EntriesOf(s, "DEBIT")) = 1
    /\ Cardinality(EntriesOf(s, "CREDIT")) = 1
    /\ \A e \in EntriesOf(s, "DEBIT") :
          e.account_owner_id = s.hub_owner_id /\ e.amount = s.total_amount
    /\ \A e \in EntriesOf(s, "CREDIT") :
          e.account_owner_id = s.fleet_owner_id /\ e.amount = s.total_amount

C7_StopsCompleteInOrder ==
    /\ [](\A t \in Trips, k \in Seqs, d \in Drivers :
            (trips[t].status = IN_PROGRESS /\ trips[t].driver_id = d
                /\ stops[t][k] # STOP_COMPLETED /\ k # max_completed_seq(t) + 1)
            => complete_stop_guard(t, k, d)
                 = Reject(400, "out_of_order", {max_completed_seq(t) + 1}))
    /\ [][\A t \in Trips, k \in Seqs :
            (stops[t][k] # STOP_COMPLETED /\ stops'[t][k] = STOP_COMPLETED)
            => /\ k = max_completed_seq(t) + 1
               /\ \A j \in Seqs \ {k} : stops'[t][j] = stops[t][j]]_vars

\* the stop due next is the one before the last, a CompleteStop for the last
\* one would be refused naming the stop due, and every stop of another trip
\* was completed in turn
C7_Witness ==
    \E t \in Trips, d \in Drivers :
        /\ trips[t].status = IN_PROGRESS /\ trips[t].driver_id = d
        /\ max_completed_seq(t) = StopsPerTrip - 2
        /\ complete_stop_guard(t, StopsPerTrip, d)
             = Reject(400, "out_of_order", {StopsPerTrip - 1})
        /\ \E u \in Trips \ {t} : \A k \in Seqs : stops[u][k] = STOP_COMPLETED

\* C8: every stop of a COMPLETED trip is COMPLETED; a CompleteTrip on a trip
\* with a PENDING or SKIPPED stop is answered 400 with the sequence numbers
\* of those stops and never reaches its write.
C8_CompletedTripHasAllStopsCompleted ==
    /\ \A t \in Trips :
          trips[t].status = COMPLETED => \A k \in Seqs : stops[t][k] = STOP_COMPLETED
    /\ \A t \in Trips, d \in Drivers :
          (trips[t].status = IN_PROGRESS /\ trips[t].driver_id = d
              /\ pending_stops(t) # {})
          => complete_trip_guard(t, d) = Reject(400, "pending_stops", pending_stops(t))
    /\ \A r \in Slots :
          (req[r].op = "complete_trip" /\ Active(r)) => pending_stops(req[r].trip) = {}

\* a trip in progress whose only stop not COMPLETED is a SKIPPED one is
\* refused completion, next to a COMPLETED trip
C8_Witness ==
    /\ \E u \in Trips : trips[u].status = COMPLETED
    /\ \E t \in Trips, d \in Drivers, k \in Seqs :
          /\ trips[t].status = IN_PROGRESS /\ trips[t].driver_id = d
          /\ stops[t][k] = STOP_SKIPPED
          /\ \A j \in Seqs \ {k} : stops[t][j] = STOP_COMPLETED
          /\ complete_trip_guard(t, d) = Reject(400, "pending_stops", {k})

AllowedTransitions ==
    {<<PLANNED, PENDING>>, <<PENDING, PLANNED>>, <<PENDING, IN_PROGRESS>>,
     <<IN_PROGRESS, COMPLETED>>}

\* C9: a trip's status changes only PLANNED -> PENDING, PENDING -> PLANNED,
\* PENDING -> IN_PROGRESS or IN_PROGRESS -> COMPLETED; COMPLETED and
\* CANCELLED are never left; UnassignDriver on an IN_PROGRESS trip is
\* refused.
C9_OnlyAllowedTransitions ==
    /\ [][\A t \in Trips :
            trips'[t].status # trips[t].status
            => <<trips[t].status, trips'[t].status>> \in AllowedTransitions]_vars
    /\ [](\A t \in Trips, f \in FleetOwners :
            trips[t].status = IN_PROGRESS => unassign_driver_guard(t, f) # Pass)

\* C10: a trip with a driver is PENDING, IN_PROGRESS or COMPLETED, and a
\* trip that is PENDING or IN_PROGRESS has a driver, under any interleaving
\* of AssignDriver, UnassignDriver, Start and CompleteTrip.
C10_DriverIffAssignedStatus ==
    \A t \in Trips :
        /\ trips[t].driver_id # NoDriver
              => trips[t].status \in {PENDING, IN_PROGRESS, COMPLETED}
        /\ trips[t].status \in {PENDING, IN_PROGRESS}
              => trips[t].driver_id # NoDriver

\* C11: a trip that has a vehicle and is IN_PROGRESS has exactly one
\* unreleased VehicleLock on that vehicle, and that lock names the trip.
C11_InProgressTripHoldsTheLock ==
    \A t \in Trips :
        (trips[t].vehicle_id # NoVehicle /\ trips[t].status = IN_PROGRESS)
        => /\ Cardinality(LiveLocks(trips[t].vehicle_id)) = 1
           /\ \A l \in LiveLocks(trips[t].vehicle_id) : l.trip_id = t

\* a trip on a vehicle is IN_PROGRESS and holds its lock, and a CompleteTrip
\* of it has failed in the meantime
C11_Witness ==
    \E t \in Trips, r \in Slots :
        /\ trips[t].vehicle_id # NoVehicle /\ trips[t].status = IN_PROGRESS
        /\ \E l \in locks : l.trip_id = t /\ ~l.released
        /\ req[r].op = "complete_trip" /\ req[r].trip = t
        /\ req[r].reason = "billing_failed"

\* C12: no driver has more than one IN_PROGRESS trip, also when two Start
\* requests for two PENDING trips of the driver run concurrently.
C12_OneInProgressTripPerDriver ==
    \A d \in Drivers : count_driver_in_progress_trips(d) <= 1

\* the trips a driver holds: those of the driver with status PLANNED
Held(d) == {h \in DOMAIN trips : trips[h].driver_id = d /\ trips[h].status = PLANNED}

\* a held trip h is connected to the candidate c: same route, or h's
\* destination within 50 of c's origin and the two created at most 2 days
\* (48 hours) apart
Connected(h, c) ==
    \/ trips[h].route_id = trips[c].route_id
    \/ /\ haversine_distance(trips[h].route_id, trips[c].route_id) <= 50
       /\ trips[c].created_at - trips[h].created_at <= 48
       /\ trips[h].created_at - trips[c].created_at <= 48

\* C13: CanAssign(driver, candidate) admits iff every trip the driver holds
\* is connected to the candidate (it admits when none is held), and a veto
\* names a held trip that is not connected.
C13_CanAssignIffAllHeldConnected ==
    \A r \in Slots :
        req[r].op = "can_assign" =>
            LET unconnected == {h \in Held(req[r].arg) : ~Connected(h, req[r].trip)}
            IN  /\ req[r].code = 200 <=> unconnected = {}
                /\ req[r].code # 200 =>
                      (req[r].value # {} /\ req[r].value \subseteq unconnected)

\* the trips a driver is assigned to that have not started
Unstarted(d) ==
    {t \in DOMAIN trips : trips[t].driver_id = d /\ trips[t].status \in {PLANNED, PENDING}}

\* C14: two unstarted trips of one driver are always connected, and an
\* AssignDriver that would give a driver an unstarted trip not connected to
\* one the driver already has is refused with the connectivity veto.
C14_UnstartedTripsOfADriverAreConnected ==
    /\ \A d \in Drivers : \A t, u \in Unstarted(d) :
          t # u => (Connected(t, u) \/ Connected(u, t))
    /\ \A t \in Trips, f \in FleetOwners, d \in Drivers :
          (trips[t].status = PLANNED /\ trips[t].fleet_owner_id = f
              /\ \E u \in Unstarted(d) \ {t} : ~Connected(u, t))
          => assign_driver_guard(t, f, d).reason = "not_connected"

\* a step in which the Start served by slot r is answered with a refusal
StartRejected(r) ==
    /\ req[r].op = "start_trip" /\ Active(r)
    /\ req'[r].op = "start_trip" /\ req'[r].pc = "done" /\ req'[r].code # 200

Eligible ==
    {p \in pricing_rules :
        /\ p.is_active = TRUE
        /\ p.effective_from <= Now
        /\ (p.effective_until = NoTime \/ \E u \in p.effective_until : u >= Now)}

\* C16: resolving the active rule returns one rule in force at Now with the
\* latest effective_from among those in force, and fails when none is in
\* force; it never returns a rule that is off, ended or not yet begun.
C16_ResolveActivePicksLatestEligible ==
    \A r \in Slots :
        req[r].op = "resolve_active_rule" =>
            /\ req[r].code = 200 <=> Eligible # {}
            /\ req[r].code # 200 =>
                  (req[r].code = 500 /\ req[r].reason = "ValueError" /\ req[r].value = {})
            /\ req[r].code = 200 =>
                  /\ Cardinality(req[r].value) = 1
                  /\ req[r].value \subseteq Eligible
                  /\ \A p \in req[r].value, o \in Eligible :
                        o.effective_from <= p.effective_from

C16_Witness ==
    \E r \in Slots :
        /\ req[r].op = "resolve_active_rule" /\ req[r].code = 200
        /\ \E p \in req[r].value :
              /\ \E o \in Eligible : o.effective_from < p.effective_from
              /\ \E x \in pricing_rules \ Eligible : x.effective_from > p.effective_from

C16_WitnessNone ==
    \E r \in Slots :
        /\ req[r].op = "resolve_active_rule" /\ req[r].code = 500
        /\ Cardinality(pricing_rules) = 3

\* C17: the TripCharge stored when a trip is completed and billed for the
\* first time has base_charge = distance * base_rate_per_km, surcharge =
\* weight of the trip's parcel * weight_surcharge_per_kg and total_charge =
\* their sum under the pricing rule in force; it names that rule and a
\* Settlement whose total_amount is the total_charge.
C17_FirstChargeArithmetic ==
    \A r \in Slots :
        (req[r].op = "complete_trip" /\ req[r].pc = "done") =>
            LET t == req[r].trip
            IN  \E c \in ChargesOf(t), rule \in resolve_active_rule :
                   /\ c.distance_km = haversine_distance(trips[t].route_id, trips[t].route_id)
                   /\ c.weight_kg = parcel_weight_kg(t)
                   /\ c.base_charge = c.distance_km * rule.base_rate_per_km
                   /\ c.surcharge = c.weight_kg * rule.weight_surcharge_per_kg
                   /\ c.total_charge = c.base_charge + c.surcharge
                   /\ c.pricing_rule_id = rule.id
                   /\ \E s \in settlements :
                         s.id = c.settlement_id /\ s.total_amount = c.total_charge

\* C18: a CompleteTrip that finishes on a trip that is IN_PROGRESS on a vehicle with all
\* its stops COMPLETED and a pricing rule in force succeeds: the trip is
\* COMPLETED, exactly one TripCharge exists for it, and no unreleased lock
\* names it any more, so that its vehicle is free for the Start of another
\* trip that the lock had refused.
C18_CompleteTripSucceedsAndFreesVehicle ==
    [][\A r \in Slots :
          LET t == req[r].trip
          IN  (/\ req[r].op = "complete_trip" /\ req[r].pc = "finish"
               /\ req'[r].pc = "done"
               /\ trips[t].status = IN_PROGRESS
               /\ trips[t].vehicle_id # NoVehicle
               /\ pending_stops(t) = {}
               /\ resolve_active_rule # {})
              => /\ req'[r].code = 200
                 /\ trips'[t].status = COMPLETED
                 /\ Cardinality({c \in charges' : c.trip_id = t}) = 1
                 /\ \A l \in locks' : l.trip_id = t => l.released
                 /\ \A l \in locks' : l.vehicle_id = trips[t].vehicle_id => l.released
      ]_vars

\* the unreleased locks of vehicle v held by trip t
LiveLocksOf(v, t) ==
    {l \in locks : l.vehicle_id = v /\ l.trip_id = t /\ l.released = FALSE}

\* C19: a Release of (vehicle, trip) returns true exactly when an unreleased
\* lock exists for that pair, and then releases that lock and no other; when
\* the pair's lock is already released, does not exist, or the vehicle's live
\* lock belongs to another trip, it returns false without error and leaves
\* every lock as it was; afterwards no unreleased lock is left for the pair,
\* so that a second Release of it returns false.
C19_ReleaseIsIdempotent ==
    [][\A r \in Slots :
          req'[r].op = "release_vehicle_lock" =>
             LET v == req'[r].arg
                 t == req'[r].trip
                 mine == LiveLocksOf(v, t)
             IN  /\ req'[r].code = 200
                 /\ req'[r].reason = "true" <=> mine # {}
                 /\ req'[r].reason = "false" <=> mine = {}
                 /\ Cardinality(locks') = Cardinality(locks)
                 /\ \A l \in locks \ mine : l \in locks'
                 /\ \A l \in mine : [l EXCEPT !.released = TRUE] \in locks'
                 /\ \A l \in locks' :
                       (l.vehicle_id = v /\ l.trip_id = t) => l.released
      ]_vars

C19_Witness ==
    \E r \in Slots :
        /\ req[r].op = "release_vehicle_lock" /\ req[r].reason = "true"
        /\ \E l \in locks :
              l.vehicle_id = req[r].arg /\ l.trip_id = req[r].trip /\ l.released
        /\ \E l \in locks : l.vehicle_id # req[r].arg /\ ~l.released

C19_WitnessOtherTrip ==
    \E r \in Slots :
        /\ req[r].op = "release_vehicle_lock" /\ req[r].reason = "false"
        /\ \E l \in locks :
              l.vehicle_id = req[r].arg /\ l.trip_id # req[r].trip /\ ~l.released

\* C20: when the write of the audit record fails, an AssignDriver, Start,
\* CompleteStop or CompleteTrip that has passed its checks (and, for
\* CompleteTrip, whose billing returned) still commits its transition (and
\* the billing rows) and is answered as a success.
C20_AuditFailureNeverAborts ==
    [][\A r \in Slots :
          LET t == req[r].trip
          IN  (/\ ~log_event
               /\ req[r].op \in {"assign_driver", "start_trip", "complete_stop",
                                 "complete_trip"}
               /\ req[r].pc \in {"commit", "finish"}
               /\ req'[r].pc = "done"
               /\ req[r].op = "complete_trip" => process_trip(t, COMPLETED).ok)
              => /\ req'[r].code = 200
                 /\ req[r].op = "assign_driver"
                      => (trips'[t].status = PENDING /\ trips'[t].driver_id = req[r].arg)
                 /\ req[r].op = "start_trip" => trips'[t].status = IN_PROGRESS
                 /\ req[r].op = "complete_stop" => stops'[t][req[r].seq] = STOP_COMPLETED
                 /\ req[r].op = "complete_trip"
                      => (trips'[t].status = COMPLETED
                          /\ \E c \in charges' : c.trip_id = t)
      ]_vars

\* the TripCharge of trip t with its Settlement and that settlement's
\* DEBIT and CREDIT entries
BilledInFull(t) ==
    \E c \in ChargesOf(t) : \E s \in settlements :
        s.id = c.settlement_id /\ DoubleEntry(s)

\* C21: in every committed state a trip is COMPLETED exactly when it has its
\* TripCharge, Settlement and two ledger entries: no COMPLETED trip lacks
\* them and no trip that is not COMPLETED has a financial row.
C21_CompletedIffBilled ==
    \A t \in Trips :
        /\ trips[t].status = COMPLETED <=> BilledInFull(t)
        /\ trips[t].status # COMPLETED =>
              /\ ChargesOf(t) = {}
              /\ Cardinality(charges) = Cardinality(settlements)
              /\ Cardinality(ledger) = 2 * Cardinality(settlements)

\* trip 1 is COMPLETED and billed in full, and a CompleteTrip on trip 2 was
\* refused by the billing: trip 2 is still IN_PROGRESS and has no charge
C21_Witness ==
    /\ trips[1].status = COMPLETED /\ BilledInFull(1)
    /\ \E r \in Slots :
          /\ req[r].op = "complete_trip" /\ req[r].pc = "done" /\ req[r].trip = 2
          /\ req[r].reason = "billing_failed"
          /\ trips[2].status = IN_PROGRESS /\ ChargesOf(2) = {}

\* a step in which a call through the breaker arrives at slot r
CallArrives(r) == ~Active(r) /\ req'[r].op = "call" /\ req'[r] # req[r]

\* a step in which the wrapped function of the call of slot r raises
CallFails(r) ==
    req[r].op = "call" /\ req[r].pc = "func" /\ req'[r].code = 500

\* C22: once failure_threshold calls have failed the breaker is OPEN, and a
\* call that arrives while it is OPEN and no more than reset_timeout after
\* the last failure raises CircuitOpenError without running the function.
C22_OpenBreakerRejectsCalls ==
    /\ [](breaker.state = CLOSED => breaker.failures < FailureThreshold)
    /\ [][\A r \in Slots :
            /\ (CallFails(r) /\ breaker.failures + 1 >= FailureThreshold)
                 => breaker'.state = OPEN
            /\ (CallArrives(r) /\ breaker.state = OPEN
                  /\ clock - breaker.last_failure_time <= ResetTimeout)
                 => /\ req'[r].pc = "done"
                    /\ req'[r].reason = "CircuitOpenError"
                    /\ breaker' = breaker]_vars

C22_Witness ==
    /\ breaker.state = OPEN /\ breaker.failures = FailureThreshold
    /\ clock = breaker.last_failure_time + ResetTimeout
    /\ \E r \in Slots : req[r].op = "call" /\ req[r].reason = "CircuitOpenError"

\* C30: failures do not accumulate across a successful call or across more
\* than reset_timeout: a call that succeeds leaves no failure counted, and a
\* failure opens the circuit only when the failure counted before it is at
\* most reset_timeout old.
C30_FailuresAccumulateWithinWindowOnly ==
    [][\A r \in Slots :
          /\ (req[r].op = "call" /\ req[r].pc = "func" /\ req'[r].code = 200)
               => breaker'.failures = 0
          /\ (CallFails(r) /\ breaker.state = CLOSED /\ breaker'.state = OPEN
                /\ breaker.failures > 0)
               => clock - breaker.last_failure_time <= ResetTimeout]_vars

MapRowsOf(q) == {m \in trip_map : m.route_request_id = q}

\* C23: a route request never has more than one Trip: every map row names
\* its own trip, every trip has its map row and its stops, and a create-trip
\* request that is refused or fails adds no Trip, TripStop or map row.
C23_OneTripPerRouteRequest ==
    /\ [](/\ \A q \in RouteRequests : Cardinality(MapRowsOf(q)) <= 1
          /\ \A m, n \in trip_map : m.trip_id = n.trip_id => m = n
          /\ DOMAIN trips = {m.trip_id : m \in trip_map}
          /\ DOMAIN stops = DOMAIN trips
          /\ \A q \in RouteRequests :
                MapRowsOf(q) # {} =>
                   \A f \in FleetOwners : create_trip_guard(q, f).code \in {400, 403})
    /\ [][\A r \in Slots :
            (req[r].op = "create_trip" /\ req[r].pc = "commit"
                /\ req'[r].pc = "done" /\ req'[r].reason = "IntegrityError")
            => (trips' = trips /\ stops' = stops /\ trip_map' = trip_map)]_vars

\* two create-trip requests for one route request overlapped: one created
\* the trip, the other failed, and the request has one trip
C23_Witness ==
    \E r, s \in Slots :
        /\ Overlapped(r, s)
        /\ req[r].op = "create_trip" /\ req[s].op = "create_trip"
        /\ req[r].seq = req[s].seq
        /\ req[r].code = 201 /\ req[s].reason = "IntegrityError"
        /\ Cardinality(MapRowsOf(req[r].seq)) = 1
        /\ Cardinality(DOMAIN trips) = 1

\* C24: a decided route request is never changed again: once its status has
\* left PENDING no accept or reject, concurrent or not, changes its status,
\* decision_reason or decided_at.
C24_DecisionIsImmutable ==
    [][\A q \in RouteRequests :
          route_requests[q].status # REQ_PENDING
          => route_requests'[q] = route_requests[q]]_vars

\* C25: while the user is blocked and no block or unblock request is still
\* being served, every authenticated request bearing the user's token is
\* answered 401.
C25_BlockedUserGets401 ==
    [][\A r \in Slots :
          (/\ ~Active(r) /\ req'[r].op = "me" /\ req'[r] # req[r]
           /\ ~user_active
           /\ \A s \in Slots : ~Active(s))
          => req'[r].code = 401]_vars

\* an UnassignDriver and a Start of one trip that were served concurrently
UnassignRacesStart(r, s) ==
    /\ Overlapped(r, s)
    /\ req[r].op = "unassign_driver" /\ req[s].op = "start_trip"
    /\ req[r].trip = req[s].trip
    /\ ~Active(r) /\ ~Active(s)

\* C26: of an UnassignDriver and a Start served concurrently on one trip at
\* most one succeeds, and no trip is ever PLANNED or driverless while it
\* holds an unreleased vehicle lock, or IN_PROGRESS with no driver.
C26_UnassignAndStartAreAtomic ==
    /\ \A r, s \in Slots :
          UnassignRacesStart(r, s) => ~(req[r].code = 200 /\ req[s].code = 200)
    /\ \A t \in Trips :
          /\ (\E l \in locks : l.trip_id = t /\ ~l.released)
                => (trips[t].status # PLANNED /\ trips[t].driver_id # NoDriver)
          /\ trips[t].status = IN_PROGRESS => trips[t].driver_id # NoDriver

\* C27: every unreleased VehicleLock names a trip that is IN_PROGRESS on the
\* lock's vehicle and was acquired by that trip's driver, and a released
\* lock is never released again or revived.
C27_LiveLockBelongsToInProgressTrip ==
    /\ [](\A l \in locks :
            ~l.released =>
               /\ trips[l.trip_id].status = IN_PROGRESS
               /\ trips[l.trip_id].vehicle_id = l.vehicle_id
               /\ trips[l.trip_id].driver_id = l.locked_by_driver_id)
    /\ [][\A l \in locks : l.released => l \in locks']_vars

\* the columns of a settlement that record its status, approval and payment
\* (updated_at is the row's modification stamp)
SettlementProgress(x) ==
    [x EXCEPT !.status = "PENDING", !.approved_by_admin_id = "none",
              !.approved_at = FALSE, !.paid_at = FALSE, !.updated_at = TRUE]

\* C28: no step updates or deletes an existing LedgerEntry or TripCharge (so
\* a charge's amounts and its settlement_id stay as written), and a step
\* that changes a Settlement changes only its status, approval and payment
\* fields.
C28_FinancialChainIsAppendOnly ==
    [][/\ ledger \subseteq ledger'
       /\ charges \subseteq charges'
       /\ \A x \in settlements :
             \E y \in settlements' :
                /\ y.id = x.id
                /\ SettlementProgress(y) = SettlementProgress(x)
       /\ \A y \in settlements', z \in settlements' : y.id = z.id => y = z
       /\ \A e \in ledger', g \in ledger' : e.id = g.id => e = g
       /\ \A c \in charges', g \in charges' : c.id = g.id => c = g]_vars

\* the settlement of the billed trip has been approved and paid, and a
\* replayed ProcessTrip of that trip was answered
C28_Witness ==
    /\ \E x \in settlements :
          x.status = "PAID" /\ x.approved_by_admin_id = Admin /\ x.paid_at
    /\ \E r \in Slots :
          req[r].op = "process_trip" /\ req[r].trip = 1 /\ ~Active(r)

\* C29: for two trips on different routes within the distance threshold,
\* validate_route_connectivity holds exactly when their created_at differ
\* by at most 48 hours, whichever of the two was created first.
C29_TimingIsExactAndSymmetric ==
    \A e \in DOMAIN trips, n \in DOMAIN trips :
        (/\ trips[e].route_id # trips[n].route_id
         /\ haversine_distance(trips[e].route_id, trips[n].route_id)
               <= CONNECTIVITY_DISTANCE_THRESHOLD_KM)
        => (validate_route_connectivity(e, n)
               <=> Abs(created_at(n) - created_at(e)) <= 48)

====
